---- MODULE Spec2Model ----
(***************************************************************************)
(* A model of the xdtip backend: the tip settlement, the payment webhook   *)
(* and the withdrawal request, as the HTTP handlers of the repository      *)
(* perform them against the Supabase store.                                *)
(*                                                                         *)
(* The repository holds several variants of the server.  Each variant is   *)
(* a specification of this module over the same request slots:             *)
(*   SpecIndex   src/index.js            (users.token_balance, creators,   *)
(*                                        platform_wallet; read-then-write)*)
(*   SpecPart4   src/unnamed/part_004    (as index.js, behind a JWT, no    *)
(*                                        platform wallet)                 *)
(*   SpecServer  src/unnamed/part_001 and src/server.js (users.balance,    *)
(*                                        rpc increment/decrement)         *)
(*   SpecNotify  src/index.js            (settlements and the overlay      *)
(*                                        sockets of socket.io)            *)
(*   SpecCreator src/index.js            (/become-creator)                 *)
(*                                                                         *)
(* Every `await` of a handler is one step of the model: between two steps  *)
(* of one request any step of another request may happen.  supabase-js     *)
(* does not throw on a failed call, it returns {data, error}; a step that  *)
(* talks to the store may therefore end with a store error and no effect.  *)
(***************************************************************************)
EXTENDS Integers, Sequences, FiniteSets, TLC

(***************************************************************************)
(* Bounds of the model.                                                    *)
(***************************************************************************)
\* HTTP requests received in one behaviour.
MaxRequests == 2
\* Store calls that may fail, and process crashes, in one behaviour.
MaxFaults == 1
\* Token balance of the viewer account when the requests start.
InitTokens == 20
\* The same for the servers that keep users.balance.
InitBalance == 100

(***************************************************************************)
(* Program constants.                                                      *)
(***************************************************************************)
\* index.js:215 `if (amount < 10)`.
MIN_TIP == 10
\* index.js:239 `Math.floor(amount * 0.92)`: the creator's share in percent.
CREATOR_PERCENT == 92
\* index.js:314 `payment.amount / 100`: minor currency units per token.
PAISE_PER_TOKEN == 100
\* part_001:157 `amount * 0.08`: the platform's fee in percent.
FEE_PERCENT == 8
\* part_001:245 `if (amount < 100)`.
MIN_WITHDRAWAL == 100

\* Two requests are in flight at a time: a slot holds a handler's frame from
\* the request's arrival until its response has been sent.
Slots == {1, 2}

\* Rows of the users table (the id stands for the username too).
UserIds == {"alice", "bob"}
\* Sender usernames and creator slugs a request may carry: registered ones
\* (alice holds tokens, bob holds none) and an unknown one.
Senders == {"alice", "bob", "nobody"}
Slugs == {"bob", "nobody"}
\* Usernames a /become-creator request may carry; "" stands for none.
Usernames == {"alice", "bob", "nobody", ""}
\* Usernames a payment's notes may carry; "" stands for no username.
NoteNames == {"alice", "nobody", ""}
\* The identity of a request's bearer token; "" stands for no valid token.
Callers == {"alice", "bob", ""}
Events == {"payment.captured", "payment.failed"}
\* The bytes of a webhook's body: the JSON document as JSON.stringify writes
\* it, or the same document with other whitespace.
RawForms == {"compact", "spaced"}
\* The signature header: the HMAC of the document in one of these forms, or
\* the HMAC of other bytes.
SignedForms == {"compact", "spaced", "other"}
\* Tip amounts a request may carry: one below the minimum and a valid one.
Amounts == {5, 10}
\* Withdrawal amounts a request may carry: one below the minimum and a
\* valid one.
WithdrawAmounts == {50, 100}
\* Payment ids and amounts (in paise, whole tokens) the gateway may send.
PaymentIds == {"pay_1", "pay_2"}
PaiseAmounts == {1000}

\* Overlay sockets connected to the server.
Sockets == {1, 2}

LedgerSteps == {"debit", "credit", "fee", "tip", "tx"}

(***************************************************************************)
(* State.                                                                  *)
(***************************************************************************)
VARIABLES
    token_balance,  \* users.token_balance, by user id
    creators,       \* the creators table: a sequence of rows, the index is the id
    wallet,         \* platform_wallet row 1: its balance
    tips,           \* the tips table (append only)
    transactions,   \* the transactions table (append only)
    req,            \* the request slots: each handler's position and locals
    faults,         \* store errors and crashes so far
    started,        \* requests received so far
    owed,           \* history: the balance changes of the requests answered
                    \* with success, summed per account
    balance,        \* users.balance of part_001 and server.js, by user id, in
                    \* hundredths of a token
    withdrawals,    \* the withdrawals table of part_001 (append only)
    role,           \* users.role, by user id
    rooms,          \* socket.io: the rooms each connected socket has joined
    inbox,          \* the events each socket has been sent
    joinedAt,       \* history: how many events had been emitted to a room when
                    \* a socket joined it (-1: it has not joined)
    emitted         \* history: the room of every event emitted, in order

\* The tables index.js and part_004 write, and those part_001 and server.js
\* write beside tips and transactions.
rpcStore == <<balance, withdrawals>>
store == <<token_balance, creators, wallet, tips, transactions, rpcStore, role>>
\* The notification channel.
channel == <<rooms, inbox, joinedAt, emitted>>
vars == <<token_balance, creators, wallet, tips, transactions, req, faults,
          started, owed, balance, withdrawals, role, channel>>

NoUser == [found |-> FALSE, id |-> "", token_balance |-> 0]
NoCreator == [found |-> FALSE, id |-> 0, payout_balance |-> 0]
NoAccount == [found |-> FALSE, id |-> "", balance |-> 0]
NoResponse == [status |-> 0, body |-> ""]

IdleReq ==
    [kind |-> "idle", pc |-> "idle",
     caller |-> "", from |-> "", to |-> "", amount |-> 0, username |-> "",
     pid |-> "",
     viewer |-> NoUser, creator |-> NoCreator, walletRead |-> 0, user |-> NoUser,
     receiver |-> NoAccount, sender |-> NoAccount,
     creatorShare |-> 0, platformShare |-> 0,
     applied |-> {}, failed |-> {}, emit |-> "none", forged |-> FALSE,
     roleRead |-> "",
     res |-> NoResponse]

\* users.balance holds fractions of a token (a tip's 92 % share is not
\* floored by these servers): the model keeps it in hundredths.
Hundredths(tokens) == tokens * 100

\* The accounts as registration and earlier purchases left them: alice holds
\* tokens, bob is a creator and holds none.
InitToken(u) == IF u = "alice" THEN InitTokens ELSE 0

Init ==
    /\ token_balance = [u \in UserIds |-> InitToken(u)]
    /\ creators = <<[user_id |-> "bob", slug |-> "bob", payout_balance |-> 0]>>
    /\ wallet = 0
    /\ tips = <<>>
    /\ transactions = <<>>
    /\ req = [s \in Slots |-> IdleReq]
    /\ faults = 0
    /\ started = 0
    /\ owed = [token |-> [u \in UserIds |-> 0], payout |-> <<0>>, wallet |-> 0]
    /\ balance = [u \in UserIds |-> IF u = "alice" THEN Hundredths(InitBalance) ELSE 0]
    /\ withdrawals = <<>>
    /\ role = [u \in UserIds |-> IF u = "bob" THEN "creator" ELSE "viewer"]
    /\ rooms = [k \in Sockets |-> {}]
    /\ inbox = [k \in Sockets |-> {}]
    /\ joinedAt = [k \in Sockets |-> [t \in Slugs |-> -1]]
    /\ emitted = <<>>

(***************************************************************************)
(* The store.                                                              *)
(***************************************************************************)
\* A store call either succeeds or returns an error without any effect.
StoreOutcomes == IF faults < MaxFaults THEN {"ok", "error"} ELSE {"ok"}

Charge(outcome) == faults' = IF outcome = "error" THEN faults + 1 ELSE faults

\* from("users").select(...).eq("username", name).single()
SelectUser(name) ==
    IF name \in UserIds
    THEN [found |-> TRUE, id |-> name, token_balance |-> token_balance[name]]
    ELSE NoUser

\* from("creators").select(...).eq("slug", slug).single(): data is null unless
\* exactly one row matches.
CreatorRows(slug) == {i \in 1..Len(creators) : creators[i].slug = slug}

SelectCreator(slug) ==
    IF Cardinality(CreatorRows(slug)) = 1
    THEN LET i == CHOOSE j \in CreatorRows(slug) : TRUE
         IN [found |-> TRUE, id |-> i, payout_balance |-> creators[i].payout_balance]
    ELSE NoCreator

(***************************************************************************)
(* The fee split.                                                          *)
(***************************************************************************)
\* Math.floor(amount * 0.92).  The double product floors to the exact
\* quotient for every whole amount up to 100000.
CreatorShare(amount) == (amount * CREATOR_PERCENT) \div 100

PlatformShare(amount) == amount - CreatorShare(amount)

(***************************************************************************)
(* Responses.                                                              *)
(***************************************************************************)
Respond(s, status, body) ==
    [req[s] EXCEPT !.pc = "done", !.res = [status |-> status, body |-> body]]

\* How a handler ends: with a response, by throwing, or with the process.
Ended == {"done", "threw", "crashed"}

InFlight(s) == req[s].pc \notin {"idle"} \cup Ended

\* A handler that has ended takes no further part: its frame is freed before
\* anything else happens (see Close).
Ready == \A t \in Slots : req[t].pc \notin Ended

\* Handler s is of this kind and at this step.
At(s, kind, pc) == Ready /\ req[s].kind = kind /\ req[s].pc = pc

\* Slot s is the first free slot and a further request may be received.
CanArrive(s) ==
    /\ Ready
    /\ req[s].pc = "idle"
    /\ \A t \in Slots : t < s => req[t].pc # "idle"
    /\ started < MaxRequests

\* A request arrives: it takes the first free slot.
Arrives(s) ==
    /\ CanArrive(s)
    /\ started' = started + 1

\* The values a request arriving at slot s may carry: none while no request
\* can arrive there.
Incoming(s, values) == IF CanArrive(s) THEN values ELSE {}

(***************************************************************************)
(* The notification channel (socket.io).                                   *)
(***************************************************************************)
\* io.emit(...): every connected socket.
AllSockets(room) == Sockets

\* io.to(room): the sockets that are in the room now.
RoomMembers(room) == {k \in Sockets : room \in rooms[k]}

\* The n-th event emitted, as a socket receives it.
Event(n, room) == [n |-> n, room |-> room]

\* io.to(room).emit(name, payload) with this outcome of the call: the event
\* is sent to the room's members, or the call throws and nothing is sent.
Emit(room, o) ==
    IF o = "ok"
    THEN /\ emitted' = Append(emitted, room)
         /\ inbox' = [k \in Sockets |->
                        IF k \in RoomMembers(room)
                        THEN inbox[k] \cup {Event(Len(emitted) + 1, room)}
                        ELSE inbox[k]]
         /\ UNCHANGED <<rooms, joinedAt>>
    ELSE UNCHANGED channel

\* The handler's frame after the emit: the event went out, or the emit threw.
Emitted(s, o) == [req[s] EXCEPT !.emit = IF o = "ok" THEN "sent" ELSE "failed"]

\* The events emitted to this room so far.
EmittedTo(room) == {n \in 1..Len(emitted) : emitted[n] = room}

\* socket.on("join_creator", slug): socket.join(slug).
JoinCreator(k, slug) ==
    /\ Ready
    /\ slug \notin rooms[k]
    /\ rooms' = [rooms EXCEPT ![k] = @ \cup {slug}]
    /\ joinedAt' = [joinedAt EXCEPT ![k][slug] = Cardinality(EmittedTo(slug))]
    /\ UNCHANGED <<store, req, faults, started, owed, inbox, emitted>>

(***************************************************************************)
(* POST /tip of index.js.                                                  *)
(***************************************************************************)
\* Lines 208-217: the body's fields and the minimum amount.
TipReceive(s, from, to, amount) ==
    /\ Arrives(s)
    /\ LET r == [IdleReq EXCEPT !.kind = "tip", !.from = from, !.to = to,
                                !.amount = amount]
       IN req' = [req EXCEPT ![s] =
                    IF from = "" \/ to = "" \/ amount = 0
                    THEN [r EXCEPT !.pc = "done",
                                   !.res = [status |-> 400, body |-> "Missing required fields"]]
                    ELSE IF amount < MIN_TIP
                    THEN [r EXCEPT !.pc = "done",
                                   !.res = [status |-> 400, body |-> "Minimum tip is 10 tokens"]]
                    ELSE [r EXCEPT !.pc = "readViewer"]]
    /\ UNCHANGED <<store, faults, owed, channel>>

\* The check with the balance left out.
ShortOfTokensUnchecked(v, amount) == ~v.found

\* Line 225: `!viewer || viewer.token_balance < amount`.
ShortOfTokens(v, amount) == ~v.found \/ v.token_balance < amount

\* Lines 219-227: read the sender, reject a missing sender or a short balance.
TipReadViewer(s) ==
    /\ At(s, "tip", "readViewer")
    /\ \E o \in StoreOutcomes :
         /\ Charge(o)
         /\ LET v == IF o = "ok" THEN SelectUser(req[s].from) ELSE NoUser
            IN req' = [req EXCEPT ![s] =
                         IF ShortOfTokens(v, req[s].amount)
                         THEN [Respond(s, 400, "Insufficient tokens") EXCEPT !.viewer = v]
                         ELSE [req[s] EXCEPT !.viewer = v, !.pc = "readCreator"]]
    /\ UNCHANGED <<store, started, owed, channel>>

\* Lines 229-240: read the creator by slug, reject an unknown one, split the fee.
TipReadCreator(s) ==
    /\ At(s, "tip", "readCreator")
    /\ \E o \in StoreOutcomes :
         /\ Charge(o)
         /\ LET c == IF o = "ok" THEN SelectCreator(req[s].to) ELSE NoCreator
            IN req' = [req EXCEPT ![s] =
                         IF ~c.found
                         THEN [Respond(s, 404, "Creator not found") EXCEPT !.creator = c]
                         ELSE [req[s] EXCEPT !.creator = c,
                                             !.creatorShare = CreatorShare(req[s].amount),
                                             !.platformShare = PlatformShare(req[s].amount),
                                             !.pc = "debit"]]
    /\ UNCHANGED <<store, started, owed, channel>>

\* A ledger step of a handler: it is recorded as applied or as failed, and
\* the handler goes on either way (the returned error is never looked at).
Step(s, name, outcome, next) ==
    [req[s] EXCEPT !.pc = next,
                   !.applied = IF outcome = "ok" THEN @ \cup {name} ELSE @,
                   !.failed = IF outcome = "ok" THEN @ ELSE @ \cup {name}]

\* Lines 242-245: write the sender's balance as read, less the amount.
TipDebit(s) ==
    /\ At(s, "tip", "debit")
    /\ \E o \in StoreOutcomes :
         /\ Charge(o)
         /\ token_balance' =
              IF o = "ok"
              THEN [token_balance EXCEPT ![req[s].viewer.id] =
                      req[s].viewer.token_balance - req[s].amount]
              ELSE token_balance
         /\ req' = [req EXCEPT ![s] = Step(s, "debit", o, "credit")]
    /\ UNCHANGED <<creators, wallet, tips, transactions, started, owed, rpcStore, role, channel>>

\* Lines 247-250: write the creator's payout balance as read, plus the share.
TipCredit(s) ==
    /\ At(s, "tip", "credit")
    /\ \E o \in StoreOutcomes :
         /\ Charge(o)
         /\ creators' =
              IF o = "ok"
              THEN [creators EXCEPT ![req[s].creator.id].payout_balance =
                      req[s].creator.payout_balance + req[s].creatorShare]
              ELSE creators
         /\ req' = [req EXCEPT ![s] = Step(s, "credit", o, "readWallet")]
    /\ UNCHANGED <<token_balance, wallet, tips, transactions, started, owed, rpcStore, role, channel>>

\* Lines 252-256: read the platform wallet.  With no row returned the next
\* line reads `wallet.balance` of null and the handler throws: no response.
TipReadWallet(s) ==
    /\ At(s, "tip", "readWallet")
    /\ \E o \in StoreOutcomes :
         /\ Charge(o)
         /\ req' = [req EXCEPT ![s] =
                      IF o = "ok"
                      THEN [req[s] EXCEPT !.walletRead = wallet, !.pc = "fee"]
                      ELSE [req[s] EXCEPT !.pc = "threw"]]
    /\ UNCHANGED <<store, started, owed, channel>>

\* Lines 258-261: write the wallet's balance as read, plus the platform share.
TipFee(s) ==
    /\ At(s, "tip", "fee")
    /\ \E o \in StoreOutcomes :
         /\ Charge(o)
         /\ wallet' = IF o = "ok" THEN req[s].walletRead + req[s].platformShare
                                  ELSE wallet
         /\ req' = [req EXCEPT ![s] = Step(s, "fee", o, "insertTip")]
    /\ UNCHANGED <<token_balance, creators, tips, transactions, started, owed, rpcStore, role, channel>>

\* Lines 263-270: insert the tip row.
TipInsertTip(s) ==
    /\ At(s, "tip", "insertTip")
    /\ \E o \in StoreOutcomes :
         /\ Charge(o)
         /\ tips' =
              IF o = "ok"
              THEN Append(tips, [viewer_id |-> req[s].viewer.id,
                                 creator_id |-> req[s].creator.id,
                                 amount |-> req[s].amount])
              ELSE tips
         /\ req' = [req EXCEPT ![s] = Step(s, "tip", o, "insertTx")]
    /\ UNCHANGED <<token_balance, creators, wallet, transactions, started, owed, rpcStore, role, channel>>

TxRow(user, type, amount, ref) ==
    [user_id |-> user, type |-> type, amount |-> amount, reference_id |-> ref]

\* Lines 272-276: insert the three transaction rows in one call.
TipInsertTx(s) ==
    /\ At(s, "tip", "insertTx")
    /\ \E o \in StoreOutcomes :
         /\ Charge(o)
         /\ transactions' =
              IF o = "ok"
              THEN transactions \o
                   <<TxRow(req[s].viewer.id, "tip_sent", req[s].amount, ""),
                     TxRow(req[s].creator.id, "tip_received", req[s].creatorShare, ""),
                     TxRow("", "platform_fee", req[s].platformShare, "")>>
              ELSE transactions
         /\ req' = [req EXCEPT ![s] = Step(s, "tx", o, "respond")]
    /\ UNCHANGED <<token_balance, creators, wallet, tips, started, owed, rpcStore, role, channel>>

\* Lines 278-288: emit the event to the creator's room and answer success.
\* The emit is not guarded: when it throws, the handler ends there and no
\* response is sent.
TipRespond(s) ==
    /\ At(s, "tip", "respond")
    /\ \E o \in StoreOutcomes :
         /\ Charge(o)
         /\ Emit(req[s].to, o)
         /\ req' = [req EXCEPT ![s] =
                      IF o = "ok"
                      THEN [Emitted(s, o) EXCEPT
                              !.pc = "done",
                              !.res = [status |-> 200, body |-> "success"]]
                      ELSE [Emitted(s, o) EXCEPT !.pc = "threw"]]
         /\ owed' = IF o = "ok"
                    THEN [owed EXCEPT
                            !.token[req[s].viewer.id] = @ - req[s].amount,
                            !.payout[req[s].creator.id] = @ + req[s].creatorShare,
                            !.wallet = @ + req[s].platformShare]
                    ELSE owed
    /\ UNCHANGED <<store, started>>

(***************************************************************************)
(* POST /webhook/razorpay of index.js.                                     *)
(***************************************************************************)
\* A webhook's JSON document, and the bytes of a body that carries it.
Document(event, username, paise, pid) ==
    [event |-> event, username |-> username, paise |-> paise, pid |-> pid]

Raw(form, doc) == [form |-> form, doc |-> doc]

\* JSON.parse (express.json()) and JSON.stringify.
Parse(raw) == raw.doc

Stringify(doc) == Raw("compact", doc)

\* crypto.createHmac("sha256", secret).update(bytes).digest("hex"): equal
\* digests come from equal bytes.
Hmac(raw) == [alg |-> "sha256", of |-> raw]

\* Lines 296-303: the digest of the raw body against the signature header.
SignatureOk(raw, signature) == signature = Hmac(raw)

\* Lines 294-319: the signature over the raw body, the event type, the
\* amount in tokens and the username of the payment's notes.
WebhookReceive(s, form, sig, event, username, paise, pid) ==
    /\ Arrives(s)
    /\ LET doc == Document(event, username, paise, pid)
           raw == Raw(form, doc)
           signature == Hmac(Raw(sig, doc))
           r == [IdleReq EXCEPT !.kind = "webhook", !.username = username,
                                !.amount = paise \div PAISE_PER_TOKEN, !.pid = pid,
                                !.forged = (signature # Hmac(raw))]
           answer(status, body) ==
               [r EXCEPT !.pc = "done", !.res = [status |-> status, body |-> body]]
       IN req' = [req EXCEPT ![s] =
                    IF ~SignatureOk(raw, signature) THEN answer(400, "Invalid signature")
                    ELSE IF event # "payment.captured" THEN answer(200, "ignored")
                    ELSE IF username = "" THEN answer(400, "Username missing")
                    ELSE [r EXCEPT !.pc = "readUser"]]
    /\ UNCHANGED <<store, faults, owed, channel>>

\* Lines 321-329: read the target user, reject an unknown one.
WebhookReadUser(s) ==
    /\ At(s, "webhook", "readUser")
    /\ \E o \in StoreOutcomes :
         /\ Charge(o)
         /\ LET u == IF o = "ok" THEN SelectUser(req[s].username) ELSE NoUser
            IN req' = [req EXCEPT ![s] =
                         IF ~u.found
                         THEN [Respond(s, 404, "User not found") EXCEPT !.user = u]
                         ELSE [req[s] EXCEPT !.user = u, !.pc = "topup"]]
    /\ UNCHANGED <<store, started, owed, channel>>

\* Lines 331-334: write the user's balance as read, plus the amount.
WebhookCredit(s) ==
    /\ At(s, "webhook", "topup")
    /\ \E o \in StoreOutcomes :
         /\ Charge(o)
         /\ token_balance' =
              IF o = "ok"
              THEN [token_balance EXCEPT ![req[s].user.id] =
                      req[s].user.token_balance + req[s].amount]
              ELSE token_balance
         /\ req' = [req EXCEPT ![s] = Step(s, "topup", o, "insertPurchase")]
    /\ UNCHANGED <<creators, wallet, tips, transactions, started, owed, rpcStore, role, channel>>

\* Lines 336-343: insert the purchase row with the payment's id.
WebhookInsertTx(s) ==
    /\ At(s, "webhook", "insertPurchase")
    /\ \E o \in StoreOutcomes :
         /\ Charge(o)
         /\ transactions' =
              IF o = "ok"
              THEN Append(transactions,
                          TxRow(req[s].user.id, "purchase", req[s].amount, req[s].pid))
              ELSE transactions
         /\ req' = [req EXCEPT ![s] = Step(s, "purchase", o, "respond")]
    /\ UNCHANGED <<token_balance, creators, wallet, tips, started, owed, rpcStore, role, channel>>

\* Line 345: answer success.
WebhookRespond(s) ==
    /\ At(s, "webhook", "respond")
    /\ req' = [req EXCEPT ![s] = Respond(s, 200, "success")]
    /\ owed' = [owed EXCEPT !.token[req[s].user.id] = @ + req[s].amount]
    /\ UNCHANGED <<store, faults, started, channel>>

(***************************************************************************)
(* The process.                                                            *)
(***************************************************************************)
\* The server process dies: every request in flight ends without a response.
Crash ==
    /\ Ready
    /\ faults < MaxFaults
    /\ \E s \in Slots : InFlight(s)
    /\ faults' = faults + 1
    /\ req' = [s \in Slots |->
                 IF InFlight(s) THEN [req[s] EXCEPT !.pc = "crashed"] ELSE req[s]]
    /\ UNCHANGED <<store, started, owed, channel>>

\* The response has been sent (or the handler is gone): its frame is freed.
Close(s) ==
    /\ req[s].pc \in Ended
    /\ req' = [req EXCEPT ![s] = IdleReq]
    /\ UNCHANGED <<store, faults, started, owed, channel>>

TipIndex(s) ==
    \/ \E from \in Incoming(s, Senders), to \in Slugs, amount \in Amounts :
         TipReceive(s, from, to, amount)
    \/ TipReadViewer(s)
    \/ TipReadCreator(s)
    \/ TipDebit(s)
    \/ TipCredit(s)
    \/ TipReadWallet(s)
    \/ TipFee(s)
    \/ TipInsertTip(s)
    \/ TipInsertTx(s)
    \/ TipRespond(s)

WebhookIndex(s) ==
    \/ \E form \in Incoming(s, RawForms), sig \in SignedForms, event \in Events,
          username \in NoteNames, paise \in PaiseAmounts, pid \in PaymentIds :
         WebhookReceive(s, form, sig, event, username, paise, pid)
    \/ WebhookReadUser(s)
    \/ WebhookCredit(s)
    \/ WebhookInsertTx(s)
    \/ WebhookRespond(s)

NextIndex ==
    \/ \E s \in Slots : TipIndex(s)
    \/ \E s \in Slots : WebhookIndex(s)
    \/ \E s \in Slots : Close(s)
    \/ Crash

SpecIndex == Init /\ [][NextIndex]_vars

(***************************************************************************)
(* POST /tip of part_004.                                                  *)
(***************************************************************************)
\* Lines 58-69 and 160-165: the bearer token, the slug and the minimum amount.
P4TipReceive(s, caller, to, amount) ==
    /\ Arrives(s)
    /\ LET r == [IdleReq EXCEPT !.kind = "tip", !.caller = caller, !.to = to,
                                !.amount = amount]
           answer(status, body) ==
               [r EXCEPT !.pc = "done", !.res = [status |-> status, body |-> body]]
       IN req' = [req EXCEPT ![s] =
                    IF caller = "" THEN answer(401, "Not logged in")
                    ELSE IF to = "" \/ amount < MIN_TIP THEN answer(400, "Invalid tip")
                    ELSE [r EXCEPT !.pc = "readViewer"]]
    /\ UNCHANGED <<store, faults, owed, channel>>

\* from("users").select(...).eq("id", id).single()
SelectUserById(id) == SelectUser(id)

\* Lines 167-175: read the caller's row (reading a field of no row throws),
\* reject a short balance.
P4TipReadViewer(s) ==
    /\ At(s, "tip", "readViewer")
    /\ \E o \in StoreOutcomes :
         /\ Charge(o)
         /\ LET v == IF o = "ok" THEN SelectUserById(req[s].caller) ELSE NoUser
            IN req' = [req EXCEPT ![s] =
                         IF ~v.found
                         THEN [req[s] EXCEPT !.viewer = v, !.pc = "threw"]
                         ELSE IF v.token_balance < req[s].amount
                         THEN [Respond(s, 400, "Not enough tokens") EXCEPT !.viewer = v]
                         ELSE [req[s] EXCEPT !.viewer = v, !.pc = "readCreator"]]
    /\ UNCHANGED <<store, started, owed, channel>>

\* Lines 177-183: read the creator by slug (the result is not looked at),
\* compute the creator's share.
P4TipReadCreator(s) ==
    /\ At(s, "tip", "readCreator")
    /\ \E o \in StoreOutcomes :
         /\ Charge(o)
         /\ LET c == IF o = "ok" THEN SelectCreator(req[s].to) ELSE NoCreator
            IN req' = [req EXCEPT ![s] =
                         [req[s] EXCEPT !.creator = c,
                                        !.creatorShare = CreatorShare(req[s].amount),
                                        !.pc = "debit"]]
    /\ UNCHANGED <<store, started, owed, channel>>

\* Lines 185-188: write the caller's balance as read, less the amount.
P4TipDebit(s) == TipDebit(s)

\* Lines 190-193: write the creator's payout balance as read, plus the
\* share.  With no creator row the argument `creator.payout_balance` throws.
P4TipCredit(s) ==
    /\ At(s, "tip", "credit")
    /\ IF req[s].creator.found
       THEN \E o \in StoreOutcomes :
              /\ Charge(o)
              /\ creators' =
                   IF o = "ok"
                   THEN [creators EXCEPT ![req[s].creator.id].payout_balance =
                           req[s].creator.payout_balance + req[s].creatorShare]
                   ELSE creators
              /\ req' = [req EXCEPT ![s] = Step(s, "credit", o, "insertTip")]
       ELSE /\ req' = [req EXCEPT ![s].pc = "threw"]
            /\ UNCHANGED <<creators, faults>>
    /\ UNCHANGED <<token_balance, wallet, tips, transactions, started, owed, rpcStore, role, channel>>

\* Lines 195-202: insert the tip row.
P4TipInsertTip(s) ==
    /\ At(s, "tip", "insertTip")
    /\ \E o \in StoreOutcomes :
         /\ Charge(o)
         /\ tips' =
              IF o = "ok"
              THEN Append(tips, [viewer_id |-> req[s].viewer.id,
                                 creator_id |-> req[s].creator.id,
                                 amount |-> req[s].amount])
              ELSE tips
         /\ req' = [req EXCEPT ![s] = Step(s, "tip", o, "respond")]
    /\ UNCHANGED <<token_balance, creators, wallet, transactions, started, owed, rpcStore, role, channel>>

\* Lines 204-210: emit the event to the creator's room and answer success.
P4TipRespond(s) ==
    /\ At(s, "tip", "respond")
    /\ \E o \in StoreOutcomes :
         /\ Charge(o)
         /\ Emit(req[s].to, o)
         /\ req' = [req EXCEPT ![s] =
                      IF o = "ok"
                      THEN [Emitted(s, o) EXCEPT
                              !.pc = "done",
                              !.res = [status |-> 200, body |-> "success"]]
                      ELSE [Emitted(s, o) EXCEPT !.pc = "threw"]]
         /\ owed' = IF o = "ok"
                    THEN [owed EXCEPT
                            !.token[req[s].viewer.id] = @ - req[s].amount,
                            !.payout[req[s].creator.id] = @ + req[s].creatorShare]
                    ELSE owed
    /\ UNCHANGED <<store, started>>

TipPart4(s) ==
    \/ \E caller \in Incoming(s, Callers), to \in Slugs, amount \in Amounts :
         P4TipReceive(s, caller, to, amount)
    \/ P4TipReadViewer(s)
    \/ P4TipReadCreator(s)
    \/ P4TipDebit(s)
    \/ P4TipCredit(s)
    \/ P4TipInsertTip(s)
    \/ P4TipRespond(s)

NextPart4 ==
    \/ \E s \in Slots : TipPart4(s)
    \/ \E s \in Slots : Close(s)
    \/ Crash

SpecPart4 == Init /\ [][NextPart4]_vars

(***************************************************************************)
(* The store of part_001 and server.js.  The functions increment_balance   *)
(* and decrement_balance live in the database; the repository holds their  *)
(* callers only.  They are modelled as the atomic update primitive the     *)
(* store is to offer: "decrement balance by N where balance >= N,          *)
(* affecting exactly one row, else fail".                                  *)
(***************************************************************************)
\* from("users").select(...).eq("username", name).single() and .eq("id", id)
SelectAccount(name) ==
    IF name \in UserIds
    THEN [found |-> TRUE, id |-> name, balance |-> balance[name]]
    ELSE NoAccount

\* decrement_balance as an unconditional update.
CanDecrementAlways(u, n) == TRUE

\* Whether decrement_balance(user_id, amount) takes effect.
CanDecrement(u, n) == balance[u] >= n

\* rpc('decrement_balance', {user_id, amount}) with this outcome of the call.
DecrementBalance(u, n, o) ==
    IF o = "ok" /\ CanDecrement(u, n) THEN [balance EXCEPT ![u] = @ - n] ELSE balance

\* The error the call returns, if any.
DecrementResult(u, n, o) == IF o = "ok" /\ CanDecrement(u, n) THEN "ok" ELSE "error"

\* rpc('increment_balance', {user_id, amount}) with this outcome of the call.
IncrementBalance(u, n, o) ==
    IF o = "ok" THEN [balance EXCEPT ![u] = @ + n] ELSE balance

\* `amount * 0.08` and `amount - platformFee`, in hundredths of a token.
PlatformFee(amount) == amount * FEE_PERCENT

SrvCreatorShare(amount) == Hundredths(amount) - PlatformFee(amount)

(***************************************************************************)
(* POST /tip of part_001 (and of server.js, line for line).                *)
(***************************************************************************)
\* Lines 36-47 and 144-148: the bearer token and the minimum amount.
SrvTipReceive(s, caller, to, amount) ==
    /\ Arrives(s)
    /\ LET r == [IdleReq EXCEPT !.kind = "tip", !.caller = caller, !.to = to,
                                !.amount = amount]
           answer(status, body) ==
               [r EXCEPT !.pc = "done", !.res = [status |-> status, body |-> body]]
       IN req' = [req EXCEPT ![s] =
                    IF caller = "" THEN answer(401, "Access denied")
                    ELSE IF amount < MIN_TIP THEN answer(400, "Min tip is 10")
                    ELSE [r EXCEPT !.pc = "readReceiver"]]
    /\ UNCHANGED <<store, faults, owed, channel>>

\* Lines 151-152: read the receiver by username, reject an unknown one.
SrvTipReadReceiver(s) ==
    /\ At(s, "tip", "readReceiver")
    /\ \E o \in StoreOutcomes :
         /\ Charge(o)
         /\ LET r == IF o = "ok" THEN SelectAccount(req[s].to) ELSE NoAccount
            IN req' = [req EXCEPT ![s] =
                         IF ~r.found
                         THEN [Respond(s, 404, "Creator not found") EXCEPT !.receiver = r]
                         ELSE [req[s] EXCEPT !.receiver = r, !.pc = "readSender"]]
    /\ UNCHANGED <<store, started, owed, channel>>

\* Lines 154-158: read the sender by id (reading a field of no row throws
\* into the catch: 500), reject a short balance, split the fee.
SrvTipReadSender(s) ==
    /\ At(s, "tip", "readSender")
    /\ \E o \in StoreOutcomes :
         /\ Charge(o)
         /\ LET a == IF o = "ok" THEN SelectAccount(req[s].caller) ELSE NoAccount
            IN req' = [req EXCEPT ![s] =
                         IF ~a.found
                         THEN [Respond(s, 500, "TypeError") EXCEPT !.sender = a]
                         ELSE IF a.balance < Hundredths(req[s].amount)
                         THEN [Respond(s, 400, "Insufficient balance") EXCEPT !.sender = a]
                         ELSE [req[s] EXCEPT !.sender = a,
                                             !.platformShare = PlatformFee(req[s].amount),
                                             !.creatorShare = SrvCreatorShare(req[s].amount),
                                             !.pc = "debit"]]
    /\ UNCHANGED <<store, started, owed, channel>>

\* Line 160: decrement the sender's balance; the returned error is dropped.
SrvTipDebit(s) ==
    /\ At(s, "tip", "debit")
    /\ \E o \in StoreOutcomes :
         LET u == req[s].caller
             n == Hundredths(req[s].amount)
         IN /\ Charge(o)
            /\ balance' = DecrementBalance(u, n, o)
            /\ req' = [req EXCEPT ![s] = Step(s, "debit", DecrementResult(u, n, o), "credit")]
    /\ UNCHANGED <<token_balance, creators, wallet, tips, transactions, started, owed, withdrawals, role, channel>>

\* Line 161: increment the receiver's balance; the returned error is dropped.
SrvTipCredit(s) ==
    /\ At(s, "tip", "credit")
    /\ \E o \in StoreOutcomes :
         /\ Charge(o)
         /\ balance' = IncrementBalance(req[s].receiver.id, req[s].creatorShare, o)
         /\ req' = [req EXCEPT ![s] = Step(s, "credit", o, "insertTip")]
    /\ UNCHANGED <<token_balance, creators, wallet, tips, transactions, started, owed, withdrawals, role, channel>>

\* Line 162: insert the tip row; the returned error is dropped.
SrvTipInsertTip(s) ==
    /\ At(s, "tip", "insertTip")
    /\ \E o \in StoreOutcomes :
         /\ Charge(o)
         /\ tips' =
              IF o = "ok"
              THEN Append(tips, [sender_id |-> req[s].caller,
                                 receiver_id |-> req[s].receiver.id,
                                 amount |-> req[s].amount])
              ELSE tips
         /\ req' = [req EXCEPT ![s] = Step(s, "tip", o, "respond")]
    /\ UNCHANGED <<token_balance, creators, wallet, transactions, started, owed, rpcStore, role, channel>>

\* Lines 164-174: emit the event to the receiver's room and answer success;
\* when the emit throws, the catch answers 500.
SrvTipRespond(s) ==
    /\ At(s, "tip", "respond")
    /\ \E o \in StoreOutcomes :
         /\ Charge(o)
         /\ Emit(req[s].to, o)
         /\ req' = [req EXCEPT ![s] =
                      [Emitted(s, o) EXCEPT
                         !.pc = "done",
                         !.res = IF o = "ok"
                                 THEN [status |-> 200, body |-> "success"]
                                 ELSE [status |-> 500, body |-> "err.message"]]]
    /\ UNCHANGED <<store, started, owed>>

(***************************************************************************)
(* POST /withdraw of part_001.                                             *)
(***************************************************************************)
\* Lines 241-245: the bearer token and the minimum amount.
WithdrawReceive(s, caller, amount) ==
    /\ Arrives(s)
    /\ LET r == [IdleReq EXCEPT !.kind = "withdraw", !.caller = caller,
                                !.amount = amount]
           answer(status, body) ==
               [r EXCEPT !.pc = "done", !.res = [status |-> status, body |-> body]]
       IN req' = [req EXCEPT ![s] =
                    IF caller = "" THEN answer(401, "Access denied")
                    ELSE IF amount < MIN_WITHDRAWAL
                    THEN answer(400, "Min withdrawal is 100")
                    ELSE [r EXCEPT !.pc = "readUser"]]
    /\ UNCHANGED <<store, faults, owed, channel>>

\* Lines 248-250: read the caller's balance (reading a field of no row
\* throws into the catch: 500), reject a short balance.
WithdrawReadUser(s) ==
    /\ At(s, "withdraw", "readUser")
    /\ \E o \in StoreOutcomes :
         /\ Charge(o)
         /\ LET a == IF o = "ok" THEN SelectAccount(req[s].caller) ELSE NoAccount
            IN req' = [req EXCEPT ![s] =
                         IF ~a.found
                         THEN [Respond(s, 500, "TypeError") EXCEPT !.sender = a]
                         ELSE IF a.balance < Hundredths(req[s].amount)
                         THEN [Respond(s, 400, "Insufficient balance") EXCEPT !.sender = a]
                         ELSE [req[s] EXCEPT !.sender = a, !.pc = "debit"]]
    /\ UNCHANGED <<store, started, owed, channel>>

\* Lines 253-254: decrement the balance; a returned error is thrown: 500.
WithdrawDebit(s) ==
    /\ At(s, "withdraw", "debit")
    /\ \E o \in StoreOutcomes :
         LET u == req[s].caller
             n == Hundredths(req[s].amount)
             r == DecrementResult(u, n, o)
             t == Step(s, "debit", r, "insert")
         IN /\ Charge(o)
            /\ balance' = DecrementBalance(u, n, o)
            /\ req' = [req EXCEPT ![s] =
                         IF r = "ok" THEN t
                         ELSE [t EXCEPT !.pc = "done",
                                        !.res = [status |-> 500, body |-> "balError"]]]
    /\ UNCHANGED <<token_balance, creators, wallet, tips, transactions, started, owed, withdrawals, role, channel>>

\* Lines 257-266: insert the withdrawal row; a returned error is thrown:
\* 500; else answer success.
WithdrawInsert(s) ==
    /\ At(s, "withdraw", "insert")
    /\ \E o \in StoreOutcomes :
         LET t == Step(s, "withdrawal", o, "done")
         IN /\ Charge(o)
            /\ withdrawals' =
                 IF o = "ok"
                 THEN Append(withdrawals, [user_id |-> req[s].caller,
                                           amount |-> req[s].amount])
                 ELSE withdrawals
            /\ req' = [req EXCEPT ![s] =
                         IF o = "ok"
                         THEN [t EXCEPT !.res = [status |-> 200, body |-> "success"]]
                         ELSE [t EXCEPT !.res = [status |-> 500, body |-> "reqError"]]]
    /\ UNCHANGED <<token_balance, creators, wallet, tips, transactions, started, owed, balance, role, channel>>

(***************************************************************************)
(* POST /webhook of part_001.                                              *)
(***************************************************************************)
\* Lines 297-302: the digest of the parsed body written out again, against
\* the signature header.
SrvSignatureOk(raw, signature) == Hmac(Stringify(Parse(raw))) = signature

\* Lines 293-316: the signature, the event type, the amount in tokens and
\* the username of the payment's notes.
SrvWebhookReceive(s, form, sig, event, username, paise, pid) ==
    /\ Arrives(s)
    /\ LET doc == Document(event, username, paise, pid)
           raw == Raw(form, doc)
           signature == Hmac(Raw(sig, doc))
           r == [IdleReq EXCEPT !.kind = "webhook", !.username = username,
                                !.amount = paise \div PAISE_PER_TOKEN, !.pid = pid,
                                !.forged = (signature # Hmac(raw))]
           answer(status, body) ==
               [r EXCEPT !.pc = "done", !.res = [status |-> status, body |-> body]]
       IN req' = [req EXCEPT ![s] =
                    IF ~SrvSignatureOk(raw, signature) THEN answer(400, "Invalid signature")
                    ELSE IF event # "payment.captured" THEN answer(200, "ok")
                    ELSE IF username = "" THEN answer(200, "ignored")
                    ELSE [r EXCEPT !.pc = "readUser"]]
    /\ UNCHANGED <<store, faults, owed, channel>>

\* Lines 319-322 and 346-349: read the target user; with none, answer ok.
SrvWebhookReadUser(s) ==
    /\ At(s, "webhook", "readUser")
    /\ \E o \in StoreOutcomes :
         /\ Charge(o)
         /\ LET a == IF o = "ok" THEN SelectAccount(req[s].username) ELSE NoAccount
            IN req' = [req EXCEPT ![s] =
                         IF ~a.found
                         THEN [Respond(s, 200, "ok") EXCEPT !.sender = a]
                         ELSE [req[s] EXCEPT !.sender = a, !.pc = "topup"]]
    /\ UNCHANGED <<store, started, owed, channel>>

\* Lines 324-329: increment the user's balance; a returned error is logged.
SrvWebhookCredit(s) ==
    /\ At(s, "webhook", "topup")
    /\ \E o \in StoreOutcomes :
         /\ Charge(o)
         /\ balance' = IncrementBalance(req[s].sender.id, Hundredths(req[s].amount), o)
         /\ req' = [req EXCEPT ![s] = Step(s, "topup", o, "insertDeposit")]
    /\ UNCHANGED <<token_balance, creators, wallet, tips, transactions, started, owed, withdrawals, role, channel>>

\* Lines 332-349: insert the deposit row whatever the increment returned; a
\* returned error is logged; answer ok.
SrvWebhookInsertTx(s) ==
    /\ At(s, "webhook", "insertDeposit")
    /\ \E o \in StoreOutcomes :
         /\ Charge(o)
         /\ transactions' =
              IF o = "ok"
              THEN Append(transactions,
                          TxRow(req[s].sender.id, "deposit", req[s].amount, req[s].pid))
              ELSE transactions
         /\ req' = [req EXCEPT ![s] =
                      [Step(s, "deposit", o, "done") EXCEPT
                          !.res = [status |-> 200, body |-> "ok"]]]
    /\ UNCHANGED <<token_balance, creators, wallet, tips, started, owed, rpcStore, role, channel>>

TipServer(s) ==
    \/ \E caller \in Incoming(s, Callers), to \in Slugs, amount \in Amounts :
         SrvTipReceive(s, caller, to, amount)
    \/ SrvTipReadReceiver(s)
    \/ SrvTipReadSender(s)
    \/ SrvTipDebit(s)
    \/ SrvTipCredit(s)
    \/ SrvTipInsertTip(s)
    \/ SrvTipRespond(s)

Withdraw(s) ==
    \/ \E caller \in Incoming(s, Callers), amount \in WithdrawAmounts :
         WithdrawReceive(s, caller, amount)
    \/ WithdrawReadUser(s)
    \/ WithdrawDebit(s)
    \/ WithdrawInsert(s)

WebhookServer(s) ==
    \/ \E form \in Incoming(s, RawForms), sig \in SignedForms, event \in Events,
          username \in NoteNames, paise \in PaiseAmounts, pid \in PaymentIds :
         SrvWebhookReceive(s, form, sig, event, username, paise, pid)
    \/ SrvWebhookReadUser(s)
    \/ SrvWebhookCredit(s)
    \/ SrvWebhookInsertTx(s)

NextServer ==
    \/ \E s \in Slots : TipServer(s)
    \/ \E s \in Slots : Withdraw(s)
    \/ \E s \in Slots : WebhookServer(s)
    \/ \E s \in Slots : Close(s)
    \/ Crash

SpecServer == Init /\ [][NextServer]_vars

(***************************************************************************)
(* Properties of index.js.                                                 *)
(***************************************************************************)
\* No request is in flight and every frame has been freed.
Quiet == \A s \in Slots : req[s].pc = "idle"

\* Every token of the ledger: the users' balances, the creators' payout
\* balances and the platform wallet.
SumTokens(us) ==
    LET RECURSIVE sum(_)
        sum(S) == IF S = {} THEN 0
                  ELSE LET u == CHOOSE x \in S : TRUE
                       IN token_balance[u] + sum(S \ {u})
    IN sum(us)

SumPayouts ==
    LET RECURSIVE sum(_)
        sum(i) == IF i = 0 THEN 0 ELSE creators[i].payout_balance + sum(i - 1)
    IN sum(Len(creators))

TotalTokens == SumTokens(UserIds) + SumPayouts + wallet

\* The purchase rows that carry payment id p.
PurchaseRows(p) ==
    {i \in 1..Len(transactions) :
        transactions[i].type = "purchase" /\ transactions[i].reference_id = p}

\* C1: no lost update.  Once the requests have been answered, and no store
\* call failed and the process did not crash, every balance is its initial
\* value plus the changes of the requests that were answered with success
\* (a request answered with an error stands for no change).
C1_NoLostUpdate ==
    (Quiet /\ faults = 0) =>
        /\ \A u \in UserIds : token_balance[u] = InitToken(u) + owed.token[u]
        /\ \A i \in 1..Len(creators) : creators[i].payout_balance = owed.payout[i]
        /\ wallet = owed.wallet

C3_IdempotentWebhook ==
    \A p \in PaymentIds : Cardinality(PurchaseRows(p)) <= 1

\* C4: atomicity under failure.  A settlement that ran alone and ended with
\* the sender debited and the receiver not credited has neither created nor
\* destroyed tokens.
C4_AtomicUnderFailure ==
    \A s \in Slots :
        (/\ started = 1
         /\ req[s].kind = "tip"
         /\ req[s].pc \in Ended
         /\ "debit" \in req[s].applied
         /\ "credit" \notin req[s].applied)
        => TotalTokens = InitTokens

\* C5: an unknown receiver.  A settlement whose slug matches no creator row
\* changes nothing in the store, and once it has ended on its own it has
\* been answered with a 4xx.
C5_ReceiverNotFound ==
    \A s \in Slots :
        (req[s].kind = "tip" /\ CreatorRows(req[s].to) = {})
        => /\ req[s].applied = {}
           /\ (faults = 0 /\ req[s].pc \in {"done", "threw"}) =>
                (req[s].res.status >= 400 /\ req[s].res.status < 500)

\* C6: a settlement whose sender holds less than the amount is answered
\* with 400 "Insufficient tokens" and has changed nothing in the store.
C6_InsufficientFunds ==
    \A s \in Slots :
        (/\ req[s].kind = "tip"
         /\ req[s].viewer.found
         /\ req[s].viewer.token_balance < req[s].amount)
        => /\ req[s].pc = "done"
           /\ req[s].res = [status |-> 400, body |-> "Insufficient tokens"]
           /\ req[s].applied = {}
           /\ req[s].failed = {}

C6_Witness ==
    \E s \in Slots :
        /\ req[s].kind = "tip"
        /\ req[s].from = "bob"
        /\ req[s].amount >= MIN_TIP
        /\ req[s].viewer.found
        /\ req[s].viewer.token_balance < req[s].amount
        /\ req[s].res.status = 400

\* C7: the effect of a successful settlement.  A settlement that ran alone
\* and was answered with success has taken the amount from the sender, given
\* the creator's share to the creator and the rest to the platform wallet,
\* and changed no other balance.
C7_SettlementEffect ==
    \A s \in Slots :
        (/\ started = 1
         /\ req[s].kind = "tip"
         /\ req[s].pc = "done"
         /\ req[s].res.status = 200)
        => /\ \A u \in UserIds :
                token_balance[u] =
                    InitToken(u) - (IF u = req[s].viewer.id THEN req[s].amount ELSE 0)
           /\ \A i \in 1..Len(creators) :
                creators[i].payout_balance =
                    IF i = req[s].creator.id THEN CreatorShare(req[s].amount) ELSE 0
           /\ wallet = PlatformShare(req[s].amount)

\* C8: conservation of the fee split.  The shares a settlement computes
\* add up to the amount, and the creator's share is the whole number
\* floor(amount * 0.92) (the shares are in hundredths of a token here).
C8_FeeSplit ==
    \A s \in Slots :
        (req[s].kind = "tip" /\ req[s].pc \in {"debit", "credit", "insertTip", "respond"})
        => /\ req[s].creatorShare + req[s].platformShare = Hundredths(req[s].amount)
           /\ req[s].creatorShare = Hundredths(CreatorShare(req[s].amount))

\* C9: all-or-none visibility.  In every state the ledger steps of a
\* settlement (debit, credit, fee, tip row, transaction rows) are all applied
\* or none is.
C9_AllOrNone ==
    \A s \in Slots :
        req[s].kind = "tip" => req[s].applied \in {{}, LedgerSteps}

\* C10: store errors surface.  A settlement one of whose ledger steps failed
\* is answered with a 5xx, and one answered with success has applied all of
\* its ledger steps.
C10_StoreErrorsSurface ==
    \A s \in Slots :
        (req[s].kind = "tip" /\ req[s].pc = "done")
        => /\ req[s].failed # {} => req[s].res.status >= 500
           /\ req[s].res.status = 200 => req[s].applied = LedgerSteps

(***************************************************************************)
(* Validation, the webhook's answers and the notification.                 *)
(***************************************************************************)
\* The kind of error an answer of POST /tip stands for.
ErrorKind(body) ==
    CASE body \in {"Missing required fields", "Minimum tip is 10 tokens"} -> "InvalidAmount"
      [] body = "Sender not found" -> "SenderNotFound"
      [] body = "Creator not found" -> "ReceiverNotFound"
      [] body = "Insufficient tokens" -> "InsufficientFunds"
      [] OTHER -> "none"

\* The first precondition a settlement's request violates, in the order
\* amount, sender, receiver, balance.
FirstViolated(s) ==
    IF req[s].amount < MIN_TIP THEN "InvalidAmount"
    ELSE IF req[s].from \notin UserIds THEN "SenderNotFound"
    ELSE IF CreatorRows(req[s].to) = {} THEN "ReceiverNotFound"
    ELSE IF req[s].viewer.token_balance < req[s].amount THEN "InsufficientFunds"
    ELSE "none"

\* C11: validation order.  A settlement that has been answered, with no
\* store call failed, was answered with the error of the first precondition
\* it violates in the order amount, sender exists, receiver exists, balance
\* (and with no error when it violates none).
C11_ValidationOrder ==
    \A s \in Slots :
        (req[s].kind = "tip" /\ req[s].pc = "done" /\ faults = 0)
        => ErrorKind(req[s].res.body) = FirstViolated(s)

\* C12: signature enforcement.  A webhook request whose signature is not the
\* HMAC of the body as received has been answered with 400 and has neither
\* changed a balance nor written a record, nor tried to, whatever its event,
\* amount or username.
C12_SignatureEnforced ==
    \A s \in Slots :
        (req[s].kind = "webhook" /\ req[s].forged)
        => /\ req[s].pc = "done"
           /\ req[s].res.status = 400
           /\ req[s].applied = {}
           /\ req[s].failed = {}

\* C13: the webhook's answer.  A webhook request with a valid signature that
\* has been answered was answered with 200, whatever its event type or
\* username and whether or not the account exists; only a request with an
\* invalid signature is answered with 400.
C13_WebhookAlwaysOk ==
    \A s \in Slots :
        (req[s].kind = "webhook" /\ req[s].pc = "done")
        => /\ ~req[s].forged => req[s].res.status = 200
           /\ req[s].res.status = 400 => req[s].forged

\* C14: notification isolation.  A settlement whose emit failed has been
\* answered with success all the same, and the ledger steps it had applied
\* before the emit are those of a settlement whose emit succeeded.
C14_NotificationIsolation ==
    \A s \in Slots :
        (req[s].kind = "tip" /\ req[s].emit = "failed")
        => /\ req[s].pc = "done"
           /\ req[s].res.status = 200
           /\ req[s].applied = {"debit", "credit", "tip"}

\* C15: the effect of a payment.  A payment.captured webhook for an existing
\* user that ran alone and was answered with success has raised that user's
\* balance by the payment's amount in tokens, has changed no other balance,
\* and has left exactly one purchase row with the payment's id and amount.
C15_WebhookEffect ==
    \A s \in Slots :
        (/\ started = 1
         /\ req[s].kind = "webhook"
         /\ req[s].pc = "done"
         /\ req[s].res = [status |-> 200, body |-> "success"])
        => /\ \A u \in UserIds :
                token_balance[u] =
                    InitToken(u) + (IF u = req[s].user.id THEN req[s].amount ELSE 0)
           /\ Cardinality(PurchaseRows(req[s].pid)) = 1
           /\ \A i \in PurchaseRows(req[s].pid) :
                transactions[i] = TxRow(req[s].user.id, "purchase", req[s].amount, req[s].pid)

\* The kind and amount of every transaction row, in order.
AuditTrail == [i \in 1..Len(transactions) |->
                 <<transactions[i].type, transactions[i].amount>>]

\* C16: the audit records of a settlement.  With no store call failed, a
\* settlement that ran alone and was answered with success has left one tip
\* row and three transaction rows (tip_sent with the amount, tip_received
\* with the creator's share, platform_fee with the platform's share), and
\* one that was rejected has left none.
C16_AuditRecords ==
    \A s \in Slots :
        (started = 1 /\ req[s].kind = "tip" /\ req[s].pc = "done" /\ faults = 0)
        => IF req[s].res.status = 200
           THEN /\ Len(tips) = 1
                /\ AuditTrail = << <<"tip_sent", req[s].amount>>,
                                   <<"tip_received", req[s].creatorShare>>,
                                   <<"platform_fee", req[s].platformShare>> >>
           ELSE tips = <<>> /\ transactions = <<>>

(***************************************************************************)
(* index.js with its overlay sockets: settlements, and sockets that join   *)
(* creators' rooms at any point of a settlement.  The emit is one          *)
(* synchronous call, so no step of another handler comes between its room  *)
(* lookup and its sends: the settlements are taken one at a time here.     *)
(***************************************************************************)
NextNotify ==
    \/ TipIndex(1)
    \/ \E k \in Sockets, slug \in Slugs : JoinCreator(k, slug)
    \/ Close(1)

SpecNotify == Init /\ [][NextNotify]_vars

\* C17: notification delivery.  An event emitted to a creator's room has
\* been sent to exactly the sockets that had joined that room before the
\* emit: not to a socket that joined it afterwards, not to a socket that is
\* in another room only; and a settlement whose event went out, to however
\* few sockets, has been answered with success.
C17_Delivery ==
    /\ \A k \in Sockets, n \in 1..Len(emitted) :
          (Event(n, emitted[n]) \in inbox[k])
          <=> /\ joinedAt[k][emitted[n]] >= 0
              /\ joinedAt[k][emitted[n]] < Cardinality({m \in EmittedTo(emitted[n]) : m <= n})
    /\ \A k \in Sockets : \A e \in inbox[k] :
          e.n \in 1..Len(emitted) /\ emitted[e.n] = e.room
    /\ \A s \in Slots :
          (req[s].kind = "tip" /\ req[s].emit = "sent")
          => (req[s].pc = "done" /\ req[s].res.status = 200)

\* Two events have gone to bob's room: one socket joined the room between
\* them and holds the second only, another is in a different room and holds
\* none.
C17_Witness ==
    \E k, l \in Sockets :
        /\ Len(emitted) = 2
        /\ joinedAt[k]["bob"] = 1
        /\ inbox[k] = {Event(2, "bob")}
        /\ rooms[l] = {"nobody"}
        /\ inbox[l] = {}

\* C18: sender identity.  The account a settlement has debited is the
\* account of the caller its bearer token was verified for, whoever the
\* request's body names.
C18_SenderIdentity ==
    \A s \in Slots :
        (req[s].kind = "tip" /\ "debit" \in req[s].applied)
        => (req[s].caller \in UserIds /\ req[s].viewer.id = req[s].caller)

\* The ledger step a transaction row of this type accounts for.
StepOf(type) ==
    CASE type = "tip_sent" -> "debit"
      [] type = "tip_received" -> "credit"
      [] type = "platform_fee" -> "fee"
      [] OTHER -> "topup"

\* C19: mutation ordering.  In every state of a settlement that runs alone,
\* whether it is under way, has ended or was cut off by a crash, the total
\* of all balances is at most what it was before the settlement, and every
\* transaction row accounts for a balance change that was applied.
C19_DebitFirstAuditLast ==
    \A s \in Slots :
        (started = 1 /\ req[s].kind = "tip")
        => /\ TotalTokens <= InitTokens
           /\ \A i \in 1..Len(transactions) :
                StepOf(transactions[i].type) \in req[s].applied

(***************************************************************************)
(* POST /become-creator of index.js.                                       *)
(***************************************************************************)
\* Lines 157-163: the username of the body.
BecomeReceive(s, username) ==
    /\ Arrives(s)
    /\ LET r == [IdleReq EXCEPT !.kind = "become", !.username = username]
       IN req' = [req EXCEPT ![s] =
                    IF username = ""
                    THEN [r EXCEPT !.pc = "done",
                                   !.res = [status |-> 400, body |-> "Username is required"]]
                    ELSE [r EXCEPT !.pc = "readUser"]]
    /\ UNCHANGED <<store, faults, owed, channel>>

\* Lines 165-177: read the user's id and role; reject an unknown user and
\* one whose role is already "creator".
BecomeReadUser(s) ==
    /\ At(s, "become", "readUser")
    /\ \E o \in StoreOutcomes :
         /\ Charge(o)
         /\ LET u == IF o = "ok" THEN SelectUser(req[s].username) ELSE NoUser
            IN req' = [req EXCEPT ![s] =
                         IF ~u.found
                         THEN [Respond(s, 404, "User not found") EXCEPT !.user = u]
                         ELSE IF role[u.id] = "creator"
                         THEN [Respond(s, 400, "User is already a creator") EXCEPT
                                 !.user = u, !.roleRead = role[u.id]]
                         ELSE [req[s] EXCEPT !.user = u, !.roleRead = role[u.id],
                                             !.pc = "insertCreator"]]
    /\ UNCHANGED <<store, started, owed, channel>>

\* Lines 178-191: insert the creators row; a returned error is answered 500.
BecomeInsert(s) ==
    /\ At(s, "become", "insertCreator")
    /\ \E o \in StoreOutcomes :
         /\ Charge(o)
         /\ creators' =
              IF o = "ok"
              THEN Append(creators, [user_id |-> req[s].user.id,
                                     slug |-> req[s].username,
                                     payout_balance |-> 0])
              ELSE creators
         /\ req' = [req EXCEPT ![s] =
                      IF o = "ok"
                      THEN Step(s, "creator", o, "updateRole")
                      ELSE [Step(s, "creator", o, "done") EXCEPT
                              !.res = [status |-> 500, body |-> "creatorError"]]]
    /\ UNCHANGED <<token_balance, wallet, tips, transactions, started, owed, rpcStore, role, channel>>

\* Lines 193-202: set the user's role (the returned error is dropped) and
\* answer success.
BecomeUpdateRole(s) ==
    /\ At(s, "become", "updateRole")
    /\ \E o \in StoreOutcomes :
         /\ Charge(o)
         /\ role' = IF o = "ok" THEN [role EXCEPT ![req[s].user.id] = "creator"] ELSE role
         /\ req' = [req EXCEPT ![s] =
                      [Step(s, "role", o, "done") EXCEPT
                         !.res = [status |-> 200, body |-> "success"]]]
    /\ UNCHANGED <<token_balance, creators, wallet, tips, transactions, started, owed, rpcStore, channel>>

BecomeCreator(s) ==
    \/ \E username \in Incoming(s, Usernames) : BecomeReceive(s, username)
    \/ BecomeReadUser(s)
    \/ BecomeInsert(s)
    \/ BecomeUpdateRole(s)

NextCreator ==
    \/ \E s \in Slots : BecomeCreator(s)
    \/ \E s \in Slots : Close(s)
    \/ Crash

SpecCreator == Init /\ [][NextCreator]_vars

\* The creators rows of a user.
ProfilesOf(u) == {i \in 1..Len(creators) : creators[i].user_id = u}

\* C20: CreatorProfile uniqueness.  In every state, however /become-creator
\* requests for one username interleave or repeat, no user has more than
\* one creators row.
C20_OneProfile ==
    \A u \in UserIds : Cardinality(ProfilesOf(u)) <= 1

(***************************************************************************)
(* The webhook's audit row and the withdrawal of part_001.                 *)
(***************************************************************************)
\* C21: the webhook's audit row matches its effect.  A webhook whose credit
\* returned an error has written no deposit or purchase row for its
\* payment: such a row is written only once the credit has been applied.
C21_AuditMatchesCredit ==
    \A s \in Slots :
        (req[s].kind = "webhook" /\ "topup" \in req[s].failed)
        => /\ "deposit" \notin req[s].applied
           /\ "purchase" \notin req[s].applied

\* The amounts of a user's withdrawal rows, summed.
Withdrawn(u) ==
    LET RECURSIVE sum(_)
        sum(i) == IF i = 0 THEN 0
                  ELSE (IF withdrawals[i].user_id = u THEN withdrawals[i].amount ELSE 0)
                       + sum(i - 1)
    IN sum(Len(withdrawals))

\* C22: withdrawal consistency.  Once a withdrawal that ran alone has been
\* answered, what has been taken from each user's balance is the sum of that
\* user's withdrawal rows, and a withdrawal answered with an error has left
\* the caller's balance as it was.
C22_WithdrawalConsistency ==
    \A s \in Slots :
        (started = 1 /\ req[s].kind = "withdraw" /\ req[s].pc = "done")
        => /\ \A u \in UserIds :
                balance[u] = (IF u = "alice" THEN Hundredths(InitBalance) ELSE 0)
                             - Hundredths(Withdrawn(u))
           /\ (req[s].res.status >= 400 /\ req[s].caller \in UserIds) =>
                balance[req[s].caller] =
                    IF req[s].caller = "alice" THEN Hundredths(InitBalance) ELSE 0

====
